---- MODULE Spec2Model ----
(***************************************************************************)
(* A model of the CLIP example: the byte-pair tokenizer                    *)
(* (src/clip/tokenizer.py) and the forward passes of the text encoder and  *)
(* of the joint model (src/clip/model.py).                                 *)
(*                                                                         *)
(* A Python str is a sequence of one-character strings ("ab" is            *)
(* <<"a","b">>); a list of str is a sequence of such sequences.  A Python  *)
(* value that may be either (an entry of the tokenizer's cache) carries    *)
(* its type in a tag.                                                      *)
(***************************************************************************)
EXTENDS Integers, Sequences, FiniteSets, TLC

VARIABLES
    bpe_ranks,   \* CLIPTokenizer.bpe_ranks: merge pair -> rank
    vocab,       \* CLIPTokenizer.vocab: str -> id
    cache,       \* CLIPTokenizer._cache: str -> str or list of str
    call,        \* the tokenize call whose result the caller holds (warm: a
                 \* coarse token of it was in the cache from an earlier call)
    ncalls,      \* tokenize calls made so far
    pc,          \* per concurrent caller of bpe: where it is in bpe
    ctext,       \* per caller: the argument `text` of its bpe call
    cunigrams,   \* per caller: the local `unigrams`
    cresult,     \* per caller: the value its bpe call returned
    config,      \* the configuration the encoders were constructed with
    tx,          \* CLIPTextModel.__call__: the token ids of the last call
    tout,        \* ... and its outcome
    px,          \* the token ids of the call before the last
    pout,        \* ... and its outcome
    jin,         \* CLIPModel.__call__: the arguments of the last call
    jout         \* ... and its outcome

tokVars == <<call, ncalls>>
bpeVars == <<pc, ctext, cunigrams, cresult>>
tokenizerVars == <<bpe_ranks, vocab, cache, tokVars, bpeVars>>
textVars == <<tx, tout, px, pout>>
jointVars == <<jin, jout>>
modelVars == <<config, textVars, jointVars>>

vars == <<tokenizerVars, modelVars>>

----------------------------------------------------------------------------
(* Bounds. *)

\* A text is the concatenation of at most MaxFrags fragments.
MaxFrags == 2
\* tokenize is called at most MaxCalls times on one tokenizer.
MaxCalls == 2
\* A merge table holds at most MaxMerges merges.
MaxMerges == 2
\* A coarse token handed to bpe directly has at most MaxTokLen letters.
MaxTokLen == 4
\* A row of token ids has at most MaxSeq ids.
MaxSeq == 3
\* max_position_embeddings is at most MaxPos.
MaxPos == 3
\* num_hidden_layers is at most MaxLayers.
MaxLayers == 2
\* Activations are the integers modulo Modulus.
Modulus == 5

----------------------------------------------------------------------------
(* Characters and strings. *)

Letters == {"a", "b", "d", "e", "f", "n", "o", "r", "s", "t", "w", "x"}
Digits == {"1"}
Whitespace == {" ", "\n"}

\* str.lower(), tokenizer.py:96
LowerChar(c) == IF c = "A" THEN "a" ELSE IF c = "B" THEN "b" ELSE c

Lower(s) == [i \in 1..Len(s) |-> LowerChar(s[i])]

\* CLIPTokenizer.bos, CLIPTokenizer.eos
bos == <<"<", "|", "s", "t", "a", "r", "t", "o", "f", "t", "e", "x", "t", "|", ">">>
eos == <<"<", "|", "e", "n", "d", "o", "f", "t", "e", "x", "t", "|", ">">>

\* the end-of-word marker "</w>"
EndOfWord == <<"<", "/", "w", ">">>

\* s[i:] and s[:n]
After(s, n) == SubSeq(s, n + 1, Len(s))
Take(s, n) == SubSeq(s, 1, n)

StartsWith(s, p) == Len(p) <= Len(s) /\ Take(s, Len(p)) = p

\* regex.sub(r"\s+", " ", s): every maximal run of whitespace becomes one space
RECURSIVE CollapseWhitespace(_)
CollapseWhitespace(s) ==
    IF s = <<>> THEN <<>>
    ELSE IF s[1] \in Whitespace
         THEN IF Len(s) > 1 /\ s[2] \in Whitespace
              THEN CollapseWhitespace(Tail(s))
              ELSE <<" ">> \o CollapseWhitespace(Tail(s))
         ELSE <<s[1]>> \o CollapseWhitespace(Tail(s))

----------------------------------------------------------------------------
(* The coarse split, self.pat (tokenizer.py:18-21), applied by findall.     *)

IsOther(c) == c \notin Whitespace /\ c \notin Letters /\ c \notin Digits

\* the length of the match of [\p{L}]+ at the start of s
RECURSIVE LetterRun(_)
LetterRun(s) ==
    IF s # <<>> /\ s[1] \in Letters THEN 1 + LetterRun(Tail(s)) ELSE 0

\* the length of the match of [^\s\p{L}\p{N}]+ at the start of s
RECURSIVE OtherRun(_)
OtherRun(s) ==
    IF s # <<>> /\ IsOther(s[1]) THEN 1 + OtherRun(Tail(s)) ELSE 0

\* 's|'t|'re|'ve|'m|'ll|'d, in the pattern's order
Contractions ==
    << <<"'", "s">>, <<"'", "t">>, <<"'", "r", "e">>, <<"'", "v", "e">>,
       <<"'", "m">>, <<"'", "l", "l">>, <<"'", "d">> >>

\* The length of the match of self.pat at the start of s (0: no match).  The
\* alternatives are tried in the pattern's order and the first that matches
\* wins; the runs are greedy.
MatchLength(s) ==
    IF StartsWith(s, bos) THEN Len(bos)
    ELSE IF StartsWith(s, eos) THEN Len(eos)
    ELSE IF \E k \in DOMAIN Contractions : StartsWith(s, Contractions[k])
    THEN LET k == CHOOSE j \in DOMAIN Contractions :
                      /\ StartsWith(s, Contractions[j])
                      /\ \A i \in 1..(j - 1) : ~StartsWith(s, Contractions[i])
         IN  Len(Contractions[k])
    ELSE IF LetterRun(s) > 0 THEN LetterRun(s)
    ELSE IF s # <<>> /\ s[1] \in Digits THEN 1
    ELSE OtherRun(s)

\* regex.findall(self.pat, s): the non-overlapping matches, left to right
RECURSIVE FindAll(_)
FindAll(s) ==
    IF s = <<>> THEN <<>>
    ELSE LET n == MatchLength(s)
         IN  IF n = 0 THEN FindAll(Tail(s))
             ELSE <<Take(s, n)>> \o FindAll(After(s, n))

----------------------------------------------------------------------------
(* Python values held by the cache: a str or a list of str. *)

None == [tag |-> "none"]

PyStr(s) == [tag |-> "str", val |-> s]
PyList(l) == [tag |-> "list", val |-> l]

\* what `for ti in v` yields: the items of a list, the characters of a str
Iterate(v) ==
    IF v.tag = "str" THEN [i \in 1..Len(v.val) |-> <<v.val[i]>>] ELSE v.val

\* self._cache = {self.bos: self.bos, self.eos: self.eos}, tokenizer.py:23
InitCache == (bos :> PyStr(bos)) @@ (eos :> PyStr(eos))

----------------------------------------------------------------------------
(* CLIPTokenizer.bpe, tokenizer.py:41-84. *)

\* unigrams = list(text[:-1]) + [text[-1] + "</w>"]
Unigrams(text) ==
    [i \in 1..Len(text) |->
        IF i < Len(text) THEN <<text[i]>> ELSE <<text[i]>> \o EndOfWord]

\* set(zip(unigrams, unigrams[1:]))
Bigrams(unigrams) ==
    {<<unigrams[i], unigrams[i + 1]>> : i \in 1..(Len(unigrams) - 1)}

\* min(unique_bigrams, key=lambda pair: ranks.get(pair, inf)): a pair whose
\* rank no other pair's rank is below, a pair without rank counting as inf
MinBigram(bigrams, ranks) ==
    CHOOSE p \in bigrams :
        \A q \in bigrams :
            \/ q \notin DOMAIN ranks
            \/ p \in DOMAIN ranks /\ ranks[p] <= ranks[q]

\* The for loop of one merge pass (tokenizer.py:62-77) from pair i on, with
\* the flag `skip` and the list `new_unigrams` built so far.
RECURSIVE MergeFrom(_, _, _, _, _)
MergeFrom(unigrams, bigram, i, skip, new_unigrams) ==
    IF i > Len(unigrams) - 1
    THEN IF ~skip THEN Append(new_unigrams, unigrams[Len(unigrams)])
         ELSE new_unigrams
    ELSE IF skip
    THEN MergeFrom(unigrams, bigram, i + 1, FALSE, new_unigrams)
    ELSE IF <<unigrams[i], unigrams[i + 1]>> = bigram
    THEN MergeFrom(unigrams, bigram, i + 1, TRUE,
                   Append(new_unigrams, unigrams[i] \o unigrams[i + 1]))
    ELSE MergeFrom(unigrams, bigram, i + 1, FALSE,
                   Append(new_unigrams, unigrams[i]))

\* MergePass with no pair merged
MergePassMergingNothing(unigrams, bigram) == unigrams

\* MergePass without the append after the for loop (tokenizer.py:76-77)
MergePassDroppingLast(unigrams, bigram) ==
    LET r == MergeFrom(unigrams, bigram, 1, FALSE, <<>>)
    IN  IF r[Len(r)] = unigrams[Len(unigrams)] THEN Take(r, Len(r) - 1) ELSE r

MergePass(unigrams, bigram) == MergeFrom(unigrams, bigram, 1, FALSE, <<>>)

\* whether the while loop (tokenizer.py:55-60) goes on to merge
LoopMerges(unigrams, ranks) ==
    /\ Bigrams(unigrams) # {}
    /\ MinBigram(Bigrams(unigrams), ranks) \in DOMAIN ranks

\* one iteration of the while loop that merges
LoopStep(unigrams, ranks) ==
    MergePass(unigrams, MinBigram(Bigrams(unigrams), ranks))

\* the while loop, run to its end
RECURSIVE BpeLoop(_, _)
BpeLoop(unigrams, ranks) ==
    IF LoopMerges(unigrams, ranks)
    THEN BpeLoop(LoopStep(unigrams, ranks), ranks)
    ELSE unigrams

\* whether bpe stores its result: not on the early return of tokenizer.py:48-49
Memoizes(unigrams) == Bigrams(unigrams) # {}

\* Stored with the write left out
StoredNothing(c, text, unigrams) == c

\* Stored with the entry written before the merge loop has run
StoredUnmerged(c, text, unigrams) == (text :> PyList(Unigrams(text))) @@ c

\* Stored with a second write adding to the entry instead of replacing it
StoredExtended(c, text, unigrams) ==
    IF text \in DOMAIN c /\ c[text].tag = "list"
    THEN (text :> PyList(c[text].val \o unigrams)) @@ c
    ELSE (text :> PyList(unigrams)) @@ c

\* the cache c after self._cache[text] = unigrams
Stored(c, text, unigrams) == (text :> PyList(unigrams)) @@ c

\* the end of bpe, tokenizer.py:82-84, with the merged unigrams
StoreAndReturn(c, text, unigrams) ==
    [ret |-> PyList(unigrams), cache |-> Stored(c, text, unigrams)]

\* One whole call bpe(text) on a tokenizer whose cache is c: the value
\* returned and the cache afterwards.
Bpe(c, ranks, text) ==
    IF text \in DOMAIN c
    THEN [ret |-> c[text], cache |-> c]
    ELSE IF ~Memoizes(Unigrams(text))
    THEN [ret |-> PyList(Unigrams(text)), cache |-> c]
    ELSE StoreAndReturn(c, text, BpeLoop(Unigrams(text), ranks))

----------------------------------------------------------------------------
(* CLIPTokenizer.tokenize, tokenizer.py:89-109. *)

\* bpe_tokens = [ti for t in tokens for ti in self.bpe(t)]: the sub-tokens
\* of all coarse tokens in order, and the cache after the calls of bpe
RECURSIVE BpeTokens(_, _, _)
\* r is what bpe returned for the first token, tokens are the others
BpeTokensAfter(r, ranks, tokens) ==
    LET rest == BpeTokens(r.cache, ranks, tokens)
    IN  [subs |-> Iterate(r.ret) \o rest.subs, cache |-> rest.cache]

BpeTokens(c, ranks, tokens) ==
    IF tokens = <<>> THEN [subs |-> <<>>, cache |-> c]
    ELSE BpeTokensAfter(Bpe(c, ranks, Head(tokens)), ranks, Tail(tokens))

\* EosSuffix with the flag ignored
EosAlways(v, append_eos) == <<v[eos]>>

\* the ids put before and after the sub-tokens' ids, tokenizer.py:104-107
BosPrefix(v, prepend_bos) == IF prepend_bos THEN <<v[bos]>> ELSE <<>>
EosSuffix(v, append_eos) == IF append_eos THEN <<v[eos]>> ELSE <<>>

\* tokenize(text, prepend_bos, append_eos) for one str, on a tokenizer whose
\* cache is c.  error: a KeyError of a vocabulary lookup (tokenizer.py:31, 39,
\* 103); the calls of bpe are over by then, so the cache keeps their entries.
\* tokenizer.py:103-109, with the coarse tokens and what the calls of bpe gave
MapToIds(v, tokens, b, prepend_bos, append_eos) ==
    LET known == /\ \A i \in DOMAIN b.subs : b.subs[i] \in DOMAIN v
                 /\ prepend_bos => bos \in DOMAIN v
                 /\ append_eos => eos \in DOMAIN v
    IN  [error |-> ~known,
         ids |-> IF known
                 THEN BosPrefix(v, prepend_bos)
                      \o [i \in DOMAIN b.subs |-> v[b.subs[i]]]
                      \o EosSuffix(v, append_eos)
                 ELSE <<>>,
         tokens |-> tokens,
         subs |-> b.subs,
         cache |-> b.cache]

\* tokenizer.py:100-109, with the coarse tokens
SplitAndMap(c, ranks, v, tokens, prepend_bos, append_eos) ==
    MapToIds(v, tokens, BpeTokens(c, ranks, tokens), prepend_bos, append_eos)

TokenizeStr(c, ranks, v, text, prepend_bos, append_eos) ==
    SplitAndMap(c, ranks, v, FindAll(CollapseWhitespace(Lower(text))),
                prepend_bos, append_eos)

\* [self.tokenize(t, prepend_bos, append_eos) for t in text]: the rows in
\* order; the first row that raises ends the comprehension
RECURSIVE TokenizeRows(_, _, _, _, _, _)
\* r is the outcome of the first text, texts are the others
TokenizeRowsAfter(r, ranks, v, texts, prepend_bos, append_eos) ==
    IF r.error THEN [error |-> TRUE, rows |-> <<>>, cache |-> r.cache]
    ELSE LET rest == TokenizeRows(r.cache, ranks, v, texts,
                                  prepend_bos, append_eos)
         IN  [error |-> rest.error,
              rows |-> IF rest.error THEN <<>> ELSE <<r.ids>> \o rest.rows,
              cache |-> rest.cache]

TokenizeRows(c, ranks, v, texts, prepend_bos, append_eos) ==
    IF texts = <<>> THEN [error |-> FALSE, rows |-> <<>>, cache |-> c]
    ELSE TokenizeRowsAfter(
             TokenizeStr(c, ranks, v, Head(texts), prepend_bos, append_eos),
             ranks, v, Tail(texts), prepend_bos, append_eos)

\* tokenize(text, ...) for a list of str: mx.array of the rows, which raises
\* when the rows differ in length
MxArray(r) ==
    LET rectangular == \A i, j \in DOMAIN r.rows : Len(r.rows[i]) = Len(r.rows[j])
    IN  [error |-> r.error \/ ~rectangular,
         rows |-> IF r.error \/ ~rectangular THEN <<>> ELSE r.rows,
         cache |-> r.cache]

TokenizeList(c, ranks, v, texts, prepend_bos, append_eos) ==
    MxArray(TokenizeRows(c, ranks, v, texts, prepend_bos, append_eos))

----------------------------------------------------------------------------
(* The tokenizers and the inputs of the model. *)

Str1(c) == <<c>>
WithEnd(u) == u \o EndOfWord

\* The pairs a merge table is drawn from.
MergePairs ==
    { <<Str1("a"), Str1("b")>>,
      <<Str1("a"), WithEnd(Str1("b"))>>,
      <<Str1("a"), Str1("a")>>,
      <<<<"a", "b">>, WithEnd(Str1("a"))>>,
      <<Str1("<"), Str1("|")>> }

\* bpe_merges: the lists of at most MaxMerges distinct pairs
MergeLists ==
    UNION { {m \in [1..n -> MergePairs] :
                \A i, j \in 1..n : i # j => m[i] # m[j]} : n \in 0..MaxMerges }

\* bpe_ranks = dict(map(reversed, enumerate(bpe_merges))), tokenizer.py:125-126
RanksOf(merges) ==
    [p \in {merges[i] : i \in DOMAIN merges} |->
        (CHOOSE i \in DOMAIN merges : merges[i] = p) - 1]

\* a vocabulary given as the list of its strings: the id is the place
VocabOf(strings) ==
    [s \in {strings[i] : i \in DOMAIN strings} |->
        (CHOOSE i \in DOMAIN strings : strings[i] = s) - 1]

\* the vocabulary {a:0, b:1, ab:2, a</w>:3, b</w>:4, ab</w>:5, bos:6, eos:7}
SmallVocab ==
    VocabOf(<< Str1("a"), Str1("b"), <<"a", "b">>, WithEnd(Str1("a")),
               WithEnd(Str1("b")), WithEnd(<<"a", "b">>), bos, eos >>)

Chars ==
    <<"a", "b", "d", "e", "f", "n", "o", "r", "s", "t", "w", "x", "1",
      "'", "!", "<", "|", ">", "/">>

\* a closed vocabulary built the way CLIP's is: the characters, the
\* characters ending a word, the merges' results, and the two markers last
ClosedVocab ==
    VocabOf([i \in DOMAIN Chars |-> Str1(Chars[i])]
            \o [i \in DOMAIN Chars |-> WithEnd(Str1(Chars[i]))]
            \o << <<"a", "b">>, WithEnd(<<"a", "b">>), <<"a", "a">>,
                  WithEnd(<<"a", "b", "a">>), <<"<", "|">> >>
            \o <<bos, eos>>)

Vocabs == {SmallVocab, ClosedVocab}

\* the pieces a text is made of
Fragments == { Str1("a"), Str1("B"), Str1(" "), Str1("!"), bos, eos }

RECURSIVE TextsOf(_)
TextsOf(n) ==
    IF n = 0 THEN {<<>>}
    ELSE LET shorter == TextsOf(n - 1)
         IN  shorter \cup {t \o f : t \in shorter, f \in Fragments}

Texts == TextsOf(MaxFrags)

\* the lists of texts of a batch call: one or two texts, each shorter than
\* the longest text of a call with a str
Batches ==
    {<<t>> : t \in TextsOf(MaxFrags - 1)}
    \cup {<<t, u>> : t \in TextsOf(MaxFrags - 1), u \in TextsOf(MaxFrags - 1)}

NoCall == [kind |-> "none"]

----------------------------------------------------------------------------
(* The tokenizer used by one caller at a time. *)

\* no caller of bpe is modelled apart from tokenize
NoCallers == <<>>

\* no encoder has been constructed
NoModel ==
    /\ config = None
    /\ tx = None /\ tout = None /\ px = None /\ pout = None
    /\ jin = None /\ jout = None

Init ==
    /\ \E merges \in MergeLists : bpe_ranks = RanksOf(merges)
    /\ vocab \in Vocabs
    /\ cache = InitCache
    /\ call = NoCall
    /\ ncalls = 0
    /\ pc = NoCallers
    /\ ctext = NoCallers
    /\ cunigrams = NoCallers
    /\ cresult = NoCallers
    /\ NoModel

\* tokenize(text, prepend_bos, append_eos) with text a str
Tokenize(text, prepend_bos, append_eos) ==
    /\ ncalls < MaxCalls
    /\ call = NoCall
    /\ \E r \in {TokenizeStr(cache, bpe_ranks, vocab, text, prepend_bos, append_eos)} :
           /\ cache' = r.cache
           /\ call' = [kind |-> "str", text |-> text, prepend_bos |-> prepend_bos,
                       append_eos |-> append_eos, error |-> r.error,
                       ids |-> r.ids, tokens |-> r.tokens, subs |-> r.subs,
                       warm |-> \E i \in DOMAIN r.tokens :
                                    r.tokens[i] \in DOMAIN cache \ DOMAIN InitCache]
    /\ ncalls' = ncalls + 1
    /\ UNCHANGED <<modelVars, bpe_ranks, vocab, bpeVars>>

\* tokenize(text, prepend_bos, append_eos) with text a list of str
TokenizeBatch(texts, prepend_bos, append_eos) ==
    /\ ncalls < MaxCalls
    /\ call = NoCall
    /\ \E r \in {TokenizeList(cache, bpe_ranks, vocab, texts, prepend_bos, append_eos)} :
           /\ cache' = r.cache
           /\ call' = [kind |-> "list", text |-> texts, prepend_bos |-> prepend_bos,
                       append_eos |-> append_eos, error |-> r.error,
                       rows |-> r.rows]
    /\ ncalls' = ncalls + 1
    /\ UNCHANGED <<modelVars, bpe_ranks, vocab, bpeVars>>

\* the caller is done with the result of its call and may call again
Drop ==
    /\ call # NoCall
    /\ call' = NoCall
    /\ UNCHANGED <<modelVars, bpe_ranks, vocab, cache, ncalls, bpeVars>>

Next ==
    \/ Drop
    \/ \E text \in Texts, prepend_bos, append_eos \in BOOLEAN :
           Tokenize(text, prepend_bos, append_eos)
    \/ \E texts \in Batches, prepend_bos, append_eos \in BOOLEAN :
           TokenizeBatch(texts, prepend_bos, append_eos)

Spec == Init /\ [][Next]_vars

----------------------------------------------------------------------------
(* Several callers inside bpe on one tokenizer.  A caller's steps are the   *)
(* places where bpe reads or writes the shared cache; what it does to its   *)
(* locals in between is part of the step.                                   *)

Callers == {"c1", "c2"}

RECURSIVE LetterStrings(_)
LetterStrings(n) ==
    IF n = 0 THEN {<<>>}
    ELSE LET shorter == LetterStrings(n - 1)
         IN  shorter \cup {t \o Str1(l) : t \in shorter, l \in {"a", "b"}}

\* the coarse tokens bpe is called with: words, and the two markers
CoarseTokens == (LetterStrings(MaxTokLen) \ {<<>>}) \cup {bos, eos}

InitBpe ==
    /\ \E merges \in MergeLists : bpe_ranks = RanksOf(merges)
    /\ vocab = ClosedVocab
    /\ cache = InitCache
    /\ call = NoCall
    /\ ncalls = 0
    /\ pc = [c \in Callers |-> "idle"]
    /\ ctext = [c \in Callers |-> <<>>]
    /\ cunigrams = [c \in Callers |-> <<>>]
    /\ cresult = [c \in Callers |-> None]
    /\ NoModel

\* tokenizer.py:42-49: the cache lookup; on a miss the unigrams, and the
\* early return when there is no bigram
Enter(c, text) ==
    /\ pc[c] = "idle"
    /\ ctext' = [ctext EXCEPT ![c] = text]
    /\ IF text \in DOMAIN cache
       THEN /\ cresult' = [cresult EXCEPT ![c] = cache[text]]
            /\ pc' = [pc EXCEPT ![c] = "done"]
            /\ UNCHANGED cunigrams
       ELSE LET unigrams == Unigrams(text)
            IN  /\ cunigrams' = [cunigrams EXCEPT ![c] = unigrams]
                /\ IF Memoizes(unigrams)
                   THEN /\ pc' = [pc EXCEPT ![c] = "loop"]
                        /\ UNCHANGED cresult
                   ELSE /\ pc' = [pc EXCEPT ![c] = "done"]
                        /\ cresult' = [cresult EXCEPT ![c] = PyList(unigrams)]
    /\ UNCHANGED <<modelVars, bpe_ranks, vocab, cache, tokVars>>

\* tokenizer.py:55-80: one iteration of the while loop, or its end
Iteration(c) ==
    /\ pc[c] = "loop"
    /\ IF LoopMerges(cunigrams[c], bpe_ranks)
       THEN /\ cunigrams' = [cunigrams EXCEPT ![c] = LoopStep(cunigrams[c], bpe_ranks)]
            /\ UNCHANGED pc
       ELSE /\ pc' = [pc EXCEPT ![c] = "store"]
            /\ UNCHANGED cunigrams
    /\ UNCHANGED <<modelVars, bpe_ranks, vocab, cache, tokVars, ctext, cresult>>

\* tokenizer.py:82-84: the write to the cache, and the return
Store(c) ==
    /\ pc[c] = "store"
    /\ cache' = Stored(cache, ctext[c], cunigrams[c])
    /\ cresult' = [cresult EXCEPT ![c] = PyList(cunigrams[c])]
    /\ pc' = [pc EXCEPT ![c] = "done"]
    /\ UNCHANGED <<modelVars, bpe_ranks, vocab, tokVars, ctext, cunigrams>>

NextBpe ==
    \/ \E c \in Callers, text \in CoarseTokens : Enter(c, text)
    \/ \E c \in Callers : Iteration(c)
    \/ \E c \in Callers : Store(c)

SpecBpe == InitBpe /\ [][NextBpe]_vars

\* a caller inside bpe goes on to its next statement; nobody has to call
SpecBpeFair ==
    /\ InitBpe /\ [][NextBpe]_vars
    /\ \A c \in Callers : WF_vars(Iteration(c)) /\ WF_vars(Store(c))

----------------------------------------------------------------------------
(* Properties of bpe. *)

Finished(c) == pc[c] = "done"

\* the pairs of neighbours of a sequence of sub-tokens
Neighbours(subs) == {<<subs[i], subs[i + 1]>> : i \in 1..(Len(subs) - 1)}

\* what bpe(text) returns on a tokenizer nobody else has used
Alone(text) == Bpe(InitCache, bpe_ranks, text).ret

(* C1: for every non-empty coarse token and every merge table, the sequence
   bpe returns contains no adjacent pair that has a rank in the merge
   table. *)
C1_NoRankedPairLeft ==
    \A c \in Callers :
        Finished(c) => Neighbours(Iterate(cresult[c])) \cap DOMAIN bpe_ranks = {}

(* C3, as stated: after bpe(t) returns for a coarse token t of any length,
   a single character included, the cache holds an entry for t equal to the
   returned sequence. *)
C3_EveryTokenCached ==
    \A c \in Callers :
        Finished(c) => ctext[c] \in DOMAIN cache /\ cache[ctext[c]] = cresult[c]

\* a caller's bpe call was answered by the cache lookup alone
AnsweredFromCache(c) ==
    /\ pc[c] = "idle"
    /\ pc'[c] = "done"
    /\ cresult'[c] = cache[ctext'[c]]
    /\ cunigrams'[c] = cunigrams[c]
    /\ cache' = cache

(* C3, amended: after bpe(t) returns for a coarse token t of two or more
   characters, the cache holds an entry for t equal to the returned
   sequence, and every bpe(t) that starts while the cache holds an entry for
   t is answered from the cache, computing no unigrams and running no merge
   loop.  A token of one character is returned without being stored. *)
C3_Memoized ==
    /\ [](\A c \in Callers :
            Finished(c) =>
                IF Len(ctext[c]) >= 2
                THEN ctext[c] \in DOMAIN cache /\ cache[ctext[c]] = cresult[c]
                ELSE ctext[c] \notin DOMAIN cache)
    /\ [][\A c \in Callers :
            pc[c] = "idle" /\ pc'[c] # "idle" /\ ctext'[c] \in DOMAIN cache
                => AnsweredFromCache(c)]_vars

\* one caller has computed and stored a word; the other, entering later with
\* the same word, has its answer without having computed anything
C3_Witness ==
    /\ Finished("c1") /\ Finished("c2")
    /\ ctext["c1"] = ctext["c2"]
    /\ Len(ctext["c1"]) = 3
    /\ cunigrams["c1"] # <<>>
    /\ cunigrams["c2"] = <<>>
    /\ cresult["c2"] = cache[ctext["c2"]]

(* C5: in every interleaving of callers inside bpe on one tokenizer the
   cache only gains entries, an entry never changes once written, and every
   caller gets the sequence it would get running alone. *)
C5_RacesHarmless ==
    /\ [][\A t \in DOMAIN cache : t \in DOMAIN cache' /\ cache'[t] = cache[t]]_vars
    /\ [](\A c \in Callers : Finished(c) => cresult[c] = Alone(ctext[c]))

\* both callers missed the cache for the same word, both ran the merge loop,
\* and both have written the entry
C5_Witness ==
    /\ Finished("c1") /\ Finished("c2")
    /\ ctext["c1"] = ctext["c2"]
    /\ cunigrams["c1"] # <<>> /\ cunigrams["c2"] # <<>>
    /\ Len(cunigrams["c1"]) < Len(ctext["c1"])
    /\ ctext["c1"] \in DOMAIN cache

----------------------------------------------------------------------------
(* Properties of tokenize. *)

\* how often x occurs in the sequence s
Count(s, x) == Cardinality({i \in DOMAIN s : s[i] = x})

\* how often the string m occurs in the string s
Occurrences(s, m) ==
    Cardinality({i \in 1..Len(s) : StartsWith(After(s, i - 1), m)})

(* C2: each occurrence of <|startoftext|> or <|endoftext|> in the text
   passed to tokenize contributes exactly one sub-token, the marker itself:
   it is never split into its characters. *)
C2_MarkersAtomic ==
    call.kind = "str" =>
        \A m \in {bos, eos} : Count(call.subs, m) = Occurrences(call.text, m)

\* what tokenize returns for one str on a tokenizer just constructed
Fresh(text, prepend_bos, append_eos) ==
    TokenizeStr(InitCache, bpe_ranks, vocab, text, prepend_bos, append_eos)

(* C4: whatever calls came before, tokenize(s, prepend_bos, append_eos)
   returns (or fails) as it does on a tokenizer just constructed with the
   same vocabulary and merge table, and row i of a batch call is what
   tokenize returns for the i-th string alone. *)
C4_CacheNeverShows ==
    /\ call.kind = "str" =>
        LET f == Fresh(call.text, call.prepend_bos, call.append_eos)
        IN  call.error = f.error /\ call.ids = f.ids
    /\ call.kind = "list" /\ ~call.error =>
        /\ Len(call.rows) = Len(call.text)
        /\ \A i \in DOMAIN call.text :
              LET f == Fresh(call.text[i], call.prepend_bos, call.append_eos)
              IN  ~f.error /\ call.rows[i] = f.ids

\* a second call that found a word of its text in the cache, and merged it
C4_Witness ==
    /\ call.kind = "str"
    /\ ncalls = 2
    /\ call.warm
    /\ ~call.error
    /\ \E i \in DOMAIN call.subs : Len(call.subs[i]) > Len(EndOfWord) + 1

Blank(text) == \A i \in DOMAIN text : text[i] \in Whitespace

(* C10: tokenize returns the ids of the string's sub-tokens in order, with
   the id of <|startoftext|> before them iff prepend_bos and the id of
   <|endoftext|> after them iff append_eos, and nothing else; an empty or
   whitespace-only string gives [bos, eos] with both flags and the empty
   sequence with neither. *)
C10_OnlyTheSubTokens ==
    call.kind = "str" /\ ~call.error =>
        LET first == IF call.prepend_bos THEN 1 ELSE 0
            last == IF call.append_eos THEN 1 ELSE 0
        IN  /\ Len(call.ids) = first + Len(call.subs) + last
            /\ call.prepend_bos => call.ids[1] = vocab[bos]
            /\ call.append_eos => call.ids[Len(call.ids)] = vocab[eos]
            /\ \A i \in DOMAIN call.subs : call.ids[first + i] = vocab[call.subs[i]]
            /\ Blank(call.text) /\ call.prepend_bos /\ call.append_eos
                   => call.ids = <<vocab[bos], vocab[eos]>>
            /\ Blank(call.text) /\ ~call.prepend_bos /\ ~call.append_eos
                   => call.ids = <<>>

\* a whitespace-only text tokenized with both flags
C10_Witness ==
    /\ call.kind = "str"
    /\ ~call.error
    /\ call.text # <<>> /\ Blank(call.text)
    /\ call.prepend_bos /\ call.append_eos
    /\ call.ids = <<vocab[bos], vocab[eos]>>

----------------------------------------------------------------------------
(* The encoders, src/clip/model.py.  The hidden size is one and an          *)
(* activation is an integer modulo Modulus: the kernels of the array        *)
(* library are modelled by what each output position is computed from, with *)
(* fixed weights.                                                           *)

Mod(v) == v % Modulus

RECURSIVE Sum(_)
Sum(s) == IF s = <<>> THEN 0 ELSE Head(s) + Sum(Tail(s))

\* the token ids of the text encoder's vocabulary; the largest is the last
TokenIds == 0..2
BatchSizes == {1, 2}

\* an array computed once, not at each read of an element
Array(a) == IF a = a THEN a ELSE a

\* nn.LayerNorm, applied to one position
LayerNorm(v) == Mod(2 * v + 1)

\* CausalMask with a mask that hides nothing
MaskNothing(N) == [i \in 1..N |-> [k \in 1..N |-> FALSE]]

\* the additive mask of nn.MultiHeadAttention.create_additive_causal_mask(N):
\* TRUE where the entry is the large negative value, position k being after i
CausalMask(N) == [i \in 1..N |-> [k \in 1..N |-> k > i]]

\* a layer called with mask=None
NoMask(N) == [i \in 1..N |-> [k \in 1..N |-> FALSE]]

\* self-attention over one sequence: position i is computed from itself and
\* from the positions the mask leaves it (a masked position has weight 0
\* after the softmax)
Attention(y, mask) ==
    Array([i \in DOMAIN y |->
        Mod(Sum([k \in DOMAIN y |->
                    IF mask[i][k] THEN 0 ELSE (y[i] * y[k] + 1) * y[k]]))])

\* linear2(quick_gelu(linear1(v))) of layer l, applied to one position
Mlp(l, v) == Mod(v * v + l)

\* CLIPEncoderLayer l with norm_first: x + attention(ln1(x)), then x + mlp(ln2(x))
EncoderLayer(l, x, mask) ==
    LET y == Array([i \in DOMAIN x |-> LayerNorm(x[i])])
        a == Attention(y, mask)
        h == Array([i \in DOMAIN x |-> Mod(x[i] + a[i])])
    IN  Array([i \in DOMAIN x |-> Mod(h[i] + Mlp(l, LayerNorm(h[i])))])

\* reduce(lambda x, l: l(x, mask), self.layers, x), from layer l on
RECURSIVE Layers(_, _, _, _)
Layers(l, num_hidden_layers, x, mask) ==
    IF l > num_hidden_layers THEN x
    ELSE Layers(l + 1, num_hidden_layers, EncoderLayer(l, x, mask), mask)

----------------------------------------------------------------------------
(* CLIPTextModel, model.py:105-148. *)

\* self.token_embedding(x) for one id
TokenEmbedding(id) == Mod(2 * id + 1)

\* self.position_embedding: max_position_embeddings rows
PositionTable(cfg) == [p \in 1..cfg.max_position_embeddings |-> Mod(3 * p)]

Min(a, b) == IF a <= b THEN a ELSE b

\* _embed: the slice [:N] of the position table stops at the table's end;
\* the sum broadcasts a slice of one row over the positions, and raises for
\* a slice of another length than N
Embed(cfg, x) ==
    LET N == Len(x[1])
        positions == Array(Take(PositionTable(cfg), Min(N, cfg.max_position_embeddings)))
    IN  IF Len(positions) = N
        THEN [error |-> FALSE,
              embeddings |-> [b \in DOMAIN x |-> Array([n \in 1..N |->
                                Mod(TokenEmbedding(x[b][n]) + positions[n])])]]
        ELSE IF Len(positions) = 1
        THEN [error |-> FALSE,
              embeddings |-> [b \in DOMAIN x |-> Array([n \in 1..N |->
                                Mod(TokenEmbedding(x[b][n]) + positions[1])])]]
        ELSE [error |-> TRUE, embeddings |-> <<>>]

\* ArgMax with the last position instead
LastPosition(row) == Len(row)

\* mx.argmax(x, axis=-1) for one row: the first position of the largest id
ArgMax(row) ==
    CHOOSE p \in DOMAIN row :
        /\ \A k \in DOMAIN row : row[k] <= row[p]
        /\ \A k \in 1..(p - 1) : row[k] < row[p]

\* CLIPTextModel.__call__
TextModel(cfg, x) ==
    LET N == Len(x[1])
        eot_tokens == [b \in DOMAIN x |-> ArgMax(x[b])]
        e == Embed(cfg, x)
        mask == Array(CausalMask(N))
        h == Array([b \in DOMAIN x |->
                Layers(1, cfg.num_hidden_layers, e.embeddings[b], mask)])
        last_hidden_state ==
            Array([b \in DOMAIN x |-> [n \in 1..N |-> LayerNorm(h[b][n])]])
    IN  IF e.error THEN [error |-> TRUE]
        ELSE [error |-> FALSE,
              last_hidden_state |-> last_hidden_state,
              pooler_output |->
                  [b \in DOMAIN x |-> last_hidden_state[b][eot_tokens[b]]]]

TextConfigs ==
    [max_position_embeddings : 1..MaxPos,
     num_hidden_layers : 1..MaxLayers,
     vocab_size : {Cardinality(TokenIds)}]

\* the arrays of token ids of B rows of N ids
IdArrays(B, N) == [1..B -> [1..N -> TokenIds]]

TextInputs == UNION {IdArrays(B, N) : B \in BatchSizes, N \in 1..MaxSeq}

\* no tokenizer is part of a run of the encoders
NoTokenizer ==
    /\ bpe_ranks = None /\ vocab = None /\ cache = None
    /\ call = NoCall /\ ncalls = 0
    /\ pc = NoCallers /\ ctext = NoCallers
    /\ cunigrams = NoCallers /\ cresult = NoCallers

InitText ==
    /\ NoTokenizer
    /\ config \in TextConfigs
    /\ tx = None /\ tout = None /\ px = None /\ pout = None
    /\ jin = None /\ jout = None

\* one call of the text encoder
Encode(x) ==
    /\ tx' = x
    /\ tout' = TextModel(config, x)
    /\ px' = tx
    /\ pout' = tout
    /\ UNCHANGED <<tokenizerVars, config, jointVars>>

\* a text encoder called once, with a batch
NextText == tout = None /\ \E x \in TextInputs : Encode(x)

SpecText == InitText /\ [][NextText]_vars

\* a text encoder called twice, with one sequence each time
NextPair == pout = None /\ \E N \in 1..MaxSeq : \E x \in IdArrays(1, N) : Encode(x)

SpecPair == InitText /\ [][NextPair]_vars

----------------------------------------------------------------------------
(* Properties of the text encoder. *)

Called == tout # None
CalledTwice == pout # None

(* C6: for two sequences of token ids of equal length that differ only at
   positions >= j, last_hidden_state is the same at every position i < j. *)
C6_Causal ==
    CalledTwice /\ ~pout.error /\ ~tout.error /\ Len(px[1]) = Len(tx[1]) =>
        \A j \in 1..Len(tx[1]) :
            (\A k \in 1..(j - 1) : px[1][k] = tx[1][k]) =>
                \A i \in 1..(j - 1) :
                    pout.last_hidden_state[1][i] = tout.last_hidden_state[1][i]

\* two sequences of three ids that differ in the last id alone: the hidden
\* states agree before it and differ at it
C6_Witness ==
    /\ CalledTwice /\ ~pout.error /\ ~tout.error
    /\ Len(px[1]) = 3 /\ Len(tx[1]) = 3
    /\ Len(tx[1]) <= config.max_position_embeddings
    /\ px[1][1] = tx[1][1] /\ px[1][2] = tx[1][2] /\ px[1][3] # tx[1][3]
    /\ pout.last_hidden_state[1][2] = tout.last_hidden_state[1][2]
    /\ pout.last_hidden_state[1][3] # tout.last_hidden_state[1][3]

(* C7: for every max_position_embeddings >= 1 and every input longer than
   it, the text encoder's forward call ends in an error. *)
C7_TooLongRaises ==
    Called /\ Len(tx[1]) > config.max_position_embeddings => tout.error

(* C8: for each row, pooler_output is the final-layer-normed hidden state at
   a position holding the row's maximum token id; when the row contains the
   largest id of the vocabulary (the end-of-text id), that position holds
   it. *)
C8_PooledAtMaxId ==
    Called /\ ~tout.error =>
        \A b \in DOMAIN tx :
            \E p \in DOMAIN tx[b] :
                /\ \A k \in DOMAIN tx[b] : tx[b][k] <= tx[b][p]
                /\ tout.pooler_output[b] = tout.last_hidden_state[b][p]
                /\ (\E k \in DOMAIN tx[b] : tx[b][k] = config.vocab_size - 1)
                       => tx[b][p] = config.vocab_size - 1

\* a batch of two rows with the end-of-text id in the middle of one and at
\* the start of the other, pooled there and nowhere else
C8_Witness ==
    /\ Called /\ ~tout.error
    /\ Len(tx) = 2 /\ Len(tx[1]) = 3
    /\ Len(tx[1]) <= config.max_position_embeddings
    /\ tx[1][2] = config.vocab_size - 1 /\ tx[1][1] < tx[1][2] /\ tx[1][3] < tx[1][2]
    /\ tx[2][1] = config.vocab_size - 1
    /\ tout.pooler_output[1] = tout.last_hidden_state[1][2]
    /\ tout.pooler_output[1] # tout.last_hidden_state[1][3]
    /\ tout.pooler_output[2] = tout.last_hidden_state[2][1]

----------------------------------------------------------------------------
(* CLIPVisionModel, model.py:195-250. *)

\* an image is at most MaxImage pixels wide and high
MaxImage == 1

\* one channel, two pixel values
Pixels == {0, 1}

\* the images of S x S pixels
Images(S) == [1..S -> [1..S -> Pixels]]

\* the arrays of B images
PixelArrays(B, S) == [1..B -> Images(S)]

\* self.patch_embedding followed by mx.flatten: a convolution whose stride is
\* its kernel size, the patches row by row
PatchEmbedding(cfg, img) ==
    LET P == cfg.patch_size
        n == cfg.image_size \div P
        Patch(r, c) ==
            Mod(Sum([k \in 1..(P * P) |->
                        k * img[(r - 1) * P + ((k - 1) \div P) + 1]
                               [(c - 1) * P + ((k - 1) % P) + 1]]))
    IN  [q \in 1..(n * n) |-> Patch(((q - 1) \div n) + 1, ((q - 1) % n) + 1)]

\* self.class_embedding
ClassEmbedding == Mod(3)

\* self.position_embedding: num_patches + 1 rows
VisionPositions(cfg) ==
    LET n == cfg.image_size \div cfg.patch_size
    IN  [p \in 1..(n * n + 1) |-> Mod(2 * p)]

\* _embed: the class embedding, then the patches, plus the positions
VisionEmbed(cfg, x) ==
    [b \in DOMAIN x |->
        LET embeddings == <<ClassEmbedding>> \o PatchEmbedding(cfg, x[b])
        IN  [n \in DOMAIN embeddings |->
                Mod(embeddings[n] + VisionPositions(cfg)[n])]]

\* CLIPVisionModel.__call__: the layers run without a mask, the pooled output
\* is the normed first position, last_hidden_state is returned as it is
VisionModel(cfg, x) ==
    LET e == Array(VisionEmbed(cfg, x))
        h == Array([b \in DOMAIN x |->
                Layers(1, cfg.num_hidden_layers,
                       Array([n \in DOMAIN e[b] |-> LayerNorm(e[b][n])]),
                       Array(NoMask(Len(e[b]))))])
    IN  [error |-> FALSE,
         last_hidden_state |-> h,
         pooler_output |-> [b \in DOMAIN x |-> LayerNorm(h[b][1])]]

----------------------------------------------------------------------------
(* CLIPModel and clip_loss, model.py:25-30 and 311-381. *)

\* a value that is not None
Value(v) == [tag |-> "value", val |-> v]
IsNone(v) == v.tag = "none"

\* self.text_projection and self.visual_projection, without bias
TextProjection(v) == Mod(3 * v)
VisualProjection(v) == Mod(2 * v)

\* embeds / LA.norm(embeds, axis=-1, keepdims=True), for one row
Normalize(v) == Mod(v + 2)

Transpose(m) == [j \in DOMAIN m[1] |-> [i \in DOMAIN m |-> m[i][j]]]

\* cross_entropy(logits, mx.arange(N), reduction="mean"): row n is scored at
\* column n; past the last column the read is out of range and yields the
\* value g
CrossEntropy(logits, g) ==
    Mod(Sum([n \in DOMAIN logits |->
                Sum(logits[n]) + (IF n \in DOMAIN logits[n] THEN logits[n][n] ELSE g)]))

clip_loss(logits_per_text, logits_per_image, g) ==
    LET caption_loss == CrossEntropy(logits_per_text, g)
        image_loss == CrossEntropy(logits_per_image, g)
    IN  Mod(caption_loss + image_loss)

\* the guard of the logits with "or" for "and"
EitherGiven(input_ids, pixel_values) ==
    ~IsNone(input_ids) \/ ~IsNone(pixel_values)

\* input_ids is not None and pixel_values is not None
BothGiven(input_ids, pixel_values) ==
    ~IsNone(input_ids) /\ ~IsNone(pixel_values)

\* CLIPModel.__call__; g is what a read out of range yields
CLIPModel(cfg, input_ids, pixel_values, return_loss, g) ==
    LET text_model_output ==
            IF ~IsNone(input_ids)
            THEN Value(TextModel(cfg.text_config, input_ids.val)) ELSE None
        text_raised == ~IsNone(text_model_output) /\ text_model_output.val.error
        text_embeds ==
            IF ~IsNone(input_ids) /\ ~text_raised
            THEN Value(Array([b \in DOMAIN input_ids.val |->
                    Normalize(TextProjection(text_model_output.val.pooler_output[b]))]))
            ELSE None
        vision_model_output ==
            IF ~IsNone(pixel_values)
            THEN Value(VisionModel(cfg.vision_config, pixel_values.val)) ELSE None
        image_embeds ==
            IF ~IsNone(pixel_values)
            THEN Value(Array([b \in DOMAIN pixel_values.val |->
                    Normalize(VisualProjection(vision_model_output.val.pooler_output[b]))]))
            ELSE None
        logits == BothGiven(input_ids, pixel_values)
        \* None has neither a matrix product nor a transpose
        logits_raised == logits /\ (IsNone(text_embeds) \/ IsNone(image_embeds))
        logits_per_text ==
            Array([t \in DOMAIN text_embeds.val |-> [i \in DOMAIN image_embeds.val |->
                Mod(text_embeds.val[t] * image_embeds.val[i] * 2)]])
        logits_per_image == Array(Transpose(logits_per_text))
        loss ==
            IF logits /\ return_loss
            THEN Value(clip_loss(logits_per_text, logits_per_image, g))
            ELSE None
    IN  IF text_raised \/ logits_raised THEN [error |-> TRUE]
        ELSE [error |-> FALSE,
              loss |-> loss,
              text_embeds |-> text_embeds,
              image_embeds |-> image_embeds,
              vision_model_output |-> vision_model_output,
              text_model_output |-> text_model_output]

VisionConfigs ==
    {cfg \in [image_size : 1..MaxImage,
              patch_size : 1..MaxImage,
              num_hidden_layers : 1..MaxLayers] :
        cfg.patch_size <= cfg.image_size}

Configs == [text_config : TextConfigs, vision_config : VisionConfigs]

\* input_ids: None, or an array of token ids
OptionalIds == {None} \cup {Value(x) : x \in TextInputs}

\* pixel_values: None, or an array of images of the configured size
OptionalPixels(cfg) ==
    {None} \cup {Value(x) : x \in UNION {PixelArrays(B, cfg.vision_config.image_size) :
                                             B \in BatchSizes}}

\* the values an out-of-range read of the loss can yield: with as many
\* captions as images no read is out of range
OutOfRange(input_ids, pixel_values, return_loss) ==
    IF BothGiven(input_ids, pixel_values) /\ return_loss
       /\ Len(input_ids.val) # Len(pixel_values.val)
    THEN 0..(Modulus - 1) ELSE {0}

InitJoint ==
    /\ NoTokenizer
    /\ config \in Configs
    /\ tx = None /\ tout = None /\ px = None /\ pout = None
    /\ jin = None /\ jout = None

\* one call of the joint model
Forward(input_ids, pixel_values, return_loss) ==
    /\ jin' = [input_ids |-> input_ids, pixel_values |-> pixel_values,
               return_loss |-> return_loss]
    /\ \E g \in OutOfRange(input_ids, pixel_values, return_loss) :
           jout' = CLIPModel(config, input_ids, pixel_values, return_loss, g)
    /\ UNCHANGED <<tokenizerVars, config, textVars>>

NextJoint ==
    /\ jout = None
    /\ \E input_ids \in OptionalIds : \E pixel_values \in OptionalPixels(config) :
           \E return_loss \in BOOLEAN : Forward(input_ids, pixel_values, return_loss)

SpecJoint == InitJoint /\ [][NextJoint]_vars

----------------------------------------------------------------------------
(* Properties of the joint model. *)

Forwarded == jout # None

\* the text encoder, called on its own with the token ids given, returns
TextAccepted ==
    IsNone(jin.input_ids) \/ ~TextModel(config.text_config, jin.input_ids.val).error

(* C9: a forward call of the joint model whose token ids, when given, the
   text encoder accepts raises no error; it returns text_embeds and the text
   encoder's output exactly when token ids are given, image_embeds and the
   vision encoder's output exactly when pixels are given, and a loss exactly
   when both are given and return_loss is true. *)
C9_ModeResolved ==
    Forwarded /\ TextAccepted =>
        /\ ~jout.error
        /\ ~IsNone(jout.text_embeds) <=> ~IsNone(jin.input_ids)
        /\ ~IsNone(jout.text_model_output) <=> ~IsNone(jin.input_ids)
        /\ ~IsNone(jout.image_embeds) <=> ~IsNone(jin.pixel_values)
        /\ ~IsNone(jout.vision_model_output) <=> ~IsNone(jin.pixel_values)
        /\ ~IsNone(jout.loss) <=>
               (~IsNone(jin.input_ids) /\ ~IsNone(jin.pixel_values) /\ jin.return_loss)

\* two captions and two images with return_loss: a loss, both embeddings and
\* both encoders' outputs
C9_Witness ==
    /\ Forwarded /\ ~jout.error
    /\ ~IsNone(jin.input_ids) /\ ~IsNone(jin.pixel_values) /\ jin.return_loss
    /\ Len(jin.input_ids.val) = 2 /\ Len(jin.pixel_values.val) = 2
    /\ ~IsNone(jout.loss)
    /\ ~IsNone(jout.text_embeds) /\ ~IsNone(jout.image_embeds)
    /\ ~IsNone(jout.text_model_output) /\ ~IsNone(jout.vision_model_output)

----------------------------------------------------------------------------
(* Properties of the merge loop of bpe. *)

RECURSIVE Join(_)
Join(seq) == IF seq = <<>> THEN <<>> ELSE Head(seq) \o Join(Tail(seq))

InLoop(c) == pc[c] \in {"loop", "store"}

\* bpe computes unigrams for the token: it is not a key of the seeded cache
Computed(c) == ctext[c] \notin DOMAIN InitCache

(* C11, as stated: at every iteration and on return, for every coarse token,
   the two markers included, joining the unigrams gives the coarse token
   followed by "</w>". *)
C11_JoinIsTokenAlways ==
    \A c \in Callers :
        /\ InLoop(c) => Join(cunigrams[c]) = ctext[c] \o EndOfWord
        /\ Finished(c) => Join(Iterate(cresult[c])) = ctext[c] \o EndOfWord

\* whether the pair at places i, i + 1 of u is the bigram
Matches(u, bigram, i) ==
    i \in 1..(Len(u) - 1) /\ <<u[i], u[i + 1]>> = bigram

\* whether a merge starts at place i: the pair is there, and the unigram at
\* i has not been consumed by a merge that starts at i - 1
RECURSIVE MergeStartsAt(_, _, _)
MergeStartsAt(u, bigram, i) ==
    Matches(u, bigram, i) /\ ~MergeStartsAt(u, bigram, i - 1)

\* the places of u that are not consumed as the second of a merged pair
Surviving(u, bigram) == {i \in 1..Len(u) : ~MergeStartsAt(u, bigram, i - 1)}

\* the k-th smallest member of a set of numbers
Nth(S, k) == CHOOSE i \in S : Cardinality({j \in S : j < i}) = k - 1

\* u with every non-overlapping occurrence of the bigram, from the left,
\* replaced by its concatenation, and every other unigram kept in its order
Replaced(u, bigram) ==
    [k \in 1..Cardinality(Surviving(u, bigram)) |->
        LET i == Nth(Surviving(u, bigram), k)
        IN  IF MergeStartsAt(u, bigram, i) THEN u[i] \o u[i + 1] ELSE u[i]]

(* C11: for every coarse token other than the two markers, every merge pass
   replaces each non-overlapping occurrence of the chosen pair, from the
   left, by its concatenation and keeps every other unigram in its order,
   the last included; at every iteration and on return, joining the unigrams
   gives the coarse token followed by "</w>". *)
C11_MergePass ==
    /\ [](\A c \in Callers : Computed(c) =>
            /\ InLoop(c) => Join(cunigrams[c]) = ctext[c] \o EndOfWord
            /\ Finished(c) => Join(Iterate(cresult[c])) = ctext[c] \o EndOfWord)
    /\ [][\A c \in Callers :
            pc[c] = "loop" /\ cunigrams'[c] # cunigrams[c] =>
                cunigrams'[c] =
                    Replaced(cunigrams[c],
                             MinBigram(Bigrams(cunigrams[c]), bpe_ranks))]_vars

\* a token of four characters whose first pass merged the first of two
\* overlapping occurrences of (a, a) and kept the third a
C11_Witness ==
    \E c \in Callers :
        /\ Computed(c) /\ InLoop(c)
        /\ Len(ctext[c]) = 4
        /\ Take(ctext[c], 3) = <<"a", "a", "a">>
        /\ Len(cunigrams[c]) = 3
        /\ cunigrams[c][1] = <<"a", "a">>
        /\ cunigrams[c][2] = <<"a">>
        /\ Join(cunigrams[c]) = ctext[c] \o EndOfWord

\* the merging iterations the while loop runs from these unigrams on
RECURSIVE Iterations(_, _)
Iterations(unigrams, ranks) ==
    IF LoopMerges(unigrams, ranks)
    THEN 1 + Iterations(LoopStep(unigrams, ranks), ranks)
    ELSE 0

(* C12: every call of bpe returns; an iteration of the merge loop that does
   not break leaves strictly fewer unigrams; for a token of n characters the
   loop runs at most n-1 merging iterations, there are between 1 and n
   unigrams at every iteration, and the result has between 1 and n items. *)
C12_Terminates ==
    /\ [](\A c \in Callers :
            pc[c] = "loop" /\ LoopMerges(cunigrams[c], bpe_ranks) =>
                Len(LoopStep(cunigrams[c], bpe_ranks)) < Len(cunigrams[c]))
    /\ [](\A c \in Callers :
            InLoop(c) =>
                /\ Len(cunigrams[c]) \in 1..Len(ctext[c])
                /\ Iterations(cunigrams[c], bpe_ranks) <= Len(cunigrams[c]) - 1)
    /\ [](\A c \in Callers :
            Finished(c) => Len(Iterate(cresult[c])) \in 1..Len(ctext[c]))
    /\ \A c \in Callers : (pc[c] # "idle") ~> Finished(c)

\* a token of three characters returned as one unigram, after the two
\* merging iterations its length allows
C12_Witness ==
    \E c \in Callers :
        /\ Finished(c) /\ Computed(c)
        /\ Len(ctext[c]) = 3
        /\ Len(Iterate(cresult[c])) = 1
        /\ Iterations(Unigrams(ctext[c]), bpe_ranks) = Len(ctext[c]) - 1

====
